---------------------------- MODULE Spec2Model ----------------------------
(***************************************************************************)
(* A model of jusText's core (src/justext/core.py): the SAX paragraph      *)
(* segmenter (SaxPragraphMaker), the context-free classifier               *)
(* (classify_paragraphs), the context-sensitive reviser                    *)
(* (revise_paragraph_classification) and the driver (justext).             *)
(*                                                                         *)
(* A Python string is a sequence of one-character strings.  A density is   *)
(* the pair of integers the code divides; a threshold is an integer number *)
(* of hundredths, so that `d > t` and `d >= t` are decided exactly by      *)
(* cross-multiplication.                                                   *)
(***************************************************************************)
EXTENDS Integers, Sequences, FiniteSets, TLC

VARIABLES
    pc,          \* position of the run: which step comes next
    handler,     \* the SaxPragraphMaker instance: dom, paragraphs, paragraph, link, br
    events,      \* history: the SAX events delivered to the handler so far
    paragraphs,  \* the paragraph list the classifier and the reviser work on
    opts,        \* the keyword arguments of the call
    other        \* the second call of a comparison (SpecMono); the html argument (SpecDrv)

vars == <<pc, handler, events, paragraphs, opts, other>>

---------------------------------------------------------------------------
(* Bounds of the model. *)

\* longest SAX event stream delivered to the segmenter
MaxEvents == 8

\* longest paragraph list handed to the reviser
MaxParagraphs == 4

---------------------------------------------------------------------------
(* Strings. *)

\* the characters Python's str.strip(), str.split() and the regex \s treat as white-space
Whitespace == {" ", "\t", "\n"}

\* PARAGRAPH_TAGS
PARAGRAPH_TAGS ==
    {"blockquote", "caption", "center", "col", "colgroup", "dd", "div", "dl",
     "dt", "fieldset", "form", "legend", "optgroup", "option", "p", "pre",
     "table", "td", "textarea", "tfoot", "th", "thead", "tr", "ul", "li",
     "h1", "h2", "h3", "h4", "h5", "h6"}

RECURSIVE lstrip(_)
\* str.lstrip(): drop the leading white-space
lstrip(s) ==
    IF s # <<>> /\ Head(s) \in Whitespace THEN lstrip(Tail(s)) ELSE s

RECURSIVE rstrip(_)
\* str.rstrip(): drop the trailing white-space
rstrip(s) ==
    IF s # <<>> /\ s[Len(s)] \in Whitespace
    THEN rstrip(SubSeq(s, 1, Len(s) - 1))
    ELSE s

\* str.strip()
strip(s) == rstrip(lstrip(s))

\* is_blank(string): only white-space, or empty
is_blank(s) == lstrip(s) = <<>>

RECURSIVE normalize_whitespace(_)
\* MULTIPLE_WHITESPACE_PATTERN.sub(" ", string): every maximal run of
\* white-space becomes one space
normalize_whitespace(s) ==
    IF s = <<>> THEN <<>>
    ELSE IF Head(s) \in Whitespace
         THEN <<" ">> \o normalize_whitespace(lstrip(s))
         ELSE <<Head(s)>> \o normalize_whitespace(Tail(s))

RECURSIVE split(_)
\* str.split(): the maximal runs of non-white-space, in order
split(s) ==
    LET t == lstrip(s) IN
    IF t = <<>> THEN <<>>
    ELSE LET RECURSIVE wordEnd(_)
             wordEnd(i) == IF i < Len(t) /\ t[i + 1] \notin Whitespace
                           THEN wordEnd(i + 1) ELSE i
             n == wordEnd(1)
         IN  <<SubSeq(t, 1, n)>> \o split(SubSeq(t, n + 1, Len(t)))

RECURSIVE join(_)
\* ''.join(text_nodes)
join(nodes) ==
    IF nodes = <<>> THEN <<>> ELSE Head(nodes) \o join(Tail(nodes))

\* `needle in text` for strings: needle occurs as a contiguous substring
contains(text, needle) ==
    \E i \in 1..(Len(text) - Len(needle) + 1) :
        SubSeq(text, i, i + Len(needle) - 1) = needle

---------------------------------------------------------------------------
(* SaxPragraphMaker: the paragraph segmenter. *)

\* the fresh paragraph buffer of _start_new_pragraph; dom_path, '.'.join(self.dom),
\* is kept as the sequence of the joined names
new_paragraph(dom) ==
    [dom_path |-> dom, text_nodes |-> <<>>, word_count |-> 0,
     linked_char_count |-> 0, tag_count |-> 0]

\* SaxPragraphMaker.__init__
SaxPragraphMaker ==
    [dom |-> <<>>, paragraphs |-> <<>>, paragraph |-> new_paragraph(<<>>),
     link |-> FALSE, br |-> FALSE]

\* the text of a finished paragraph: normalize_whitespace(''.join(text_nodes).strip())
finalize_text(text_nodes) == normalize_whitespace(strip(join(text_nodes)))

\* SaxPragraphMaker._start_new_pragraph
start_new_pragraph(h) ==
    LET p == h.paragraph
        out == IF p.text_nodes # <<>>
               THEN Append(h.paragraphs,
                           p @@ ("text" :> finalize_text(p.text_nodes)))
               ELSE h.paragraphs
    IN  [h EXCEPT !.paragraphs = out, !.paragraph = new_paragraph(h.dom)]

\* a faulty variant of startElementNS: a br after a br is counted as an ordinary tag
startElementNS_single_br(h, name) ==
    LET h1 == [h EXCEPT !.dom = Append(@, name)] IN
    IF name \in PARAGRAPH_TAGS
    THEN start_new_pragraph(h1)
    ELSE [h1 EXCEPT !.br = (name = "br"),
                    !.link = IF name = "a" THEN TRUE ELSE @,
                    !.paragraph.tag_count = @ + 1]

\* SaxPragraphMaker.startElementNS
startElementNS(h, name) ==
    LET h1 == [h EXCEPT !.dom = Append(@, name)] IN
    IF name \in PARAGRAPH_TAGS \/ (name = "br" /\ h.br)
    THEN start_new_pragraph(
             IF name = "br"
             THEN [h1 EXCEPT !.paragraph.tag_count = @ - 1]
             ELSE h1)
    ELSE [h1 EXCEPT !.br = (name = "br"),
                    !.link = IF name = "a" THEN TRUE ELSE @,
                    !.paragraph.tag_count = @ + 1]

\* SaxPragraphMaker.endElementNS
endElementNS(h, name) ==
    LET h1 == [h EXCEPT !.dom = SubSeq(@, 1, Len(@) - 1)]
        h2 == IF name \in PARAGRAPH_TAGS THEN start_new_pragraph(h1) ELSE h1
    IN  [h2 EXCEPT !.link = IF name = "a" THEN FALSE ELSE @]

\* a faulty variant of endDocument: the last buffer is not flushed
endDocument_no_flush(h) == h

\* SaxPragraphMaker.endDocument
endDocument(h) == start_new_pragraph(h)

\* a faulty variant of characters: white-space only content is kept
characters_keep_blank(h, content) ==
    LET text == normalize_whitespace(content)
        words == split(strip(text))
    IN  [h EXCEPT !.paragraph.text_nodes = Append(@, text),
                  !.paragraph.word_count = @ + Len(words),
                  !.paragraph.linked_char_count =
                      IF h.link THEN @ + Len(text) ELSE @,
                  !.br = FALSE]

\* SaxPragraphMaker.characters
characters(h, content) ==
    IF strip(content) = <<>> THEN h
    ELSE LET text == normalize_whitespace(content)
             words == split(strip(text))
         IN  [h EXCEPT !.paragraph.text_nodes = Append(@, text),
                       !.paragraph.word_count = @ + Len(words),
                       !.paragraph.linked_char_count =
                           IF h.link THEN @ + Len(text) ELSE @,
                       !.br = FALSE]

---------------------------------------------------------------------------
(* classify_paragraphs: the context-free classifier. *)

\* the quotient a / b of two integers, kept exact as the pair
density(a, b) == [num |-> a, den |-> b]

\* the integer 0 the code assigns to both densities when word_count == 0
zero_density == density(0, 1)

\* d > t for a density d (den > 0) and a threshold of t hundredths
density_gt(d, t) == d.num * 100 > t * d.den

\* d >= t for a density d (den > 0) and a threshold of t hundredths
density_ge(d, t) == d.num * 100 >= t * d.den

\* the character U+00A9, the copyright sign
COPYRIGHT_SIGN == "U+00A9"

\* the literal '&copy'
COPY_ENTITY == <<"&", "c", "o", "p", "y">>

\* re.search('(^h\d|\.h\d)', dom_path): a name of the path starts with h and
\* a digit; of the names the model's documents use these are h1..h6
heading_path(dom_path) ==
    \E i \in 1..Len(dom_path) :
        dom_path[i] \in {"h1", "h2", "h3", "h4", "h5", "h6"}

\* re.search('(^select|\.select)', dom_path): a name of the path starts with select
select_path(dom_path) ==
    \E i \in 1..Len(dom_path) : dom_path[i] = "select"

\* the number of words of text.split() that are in the stop-list
stopword_count_of(text, stoplist) ==
    LET words == split(text) IN
    Cardinality({i \in 1..Len(words) : words[i] \in stoplist})

\* the link density of one paragraph: 0 when word_count == 0, else
\* float(linked_char_count) / len(text)
link_density_of(p) ==
    IF p.word_count = 0 THEN zero_density
    ELSE density(p.linked_char_count, Len(p.text))

\* a faulty variant of stopword_density_of: the quotient is taken the wrong way round
stopword_density_of_inverted(p, stoplist) ==
    IF p.word_count = 0 THEN zero_density
    ELSE density(p.word_count, stopword_count_of(p.text, stoplist))

\* the stop-word density of one paragraph: 0 when word_count == 0, else
\* 1.0 * stopword_count / word_count
stopword_density_of(p, stoplist) ==
    IF p.word_count = 0 THEN zero_density
    ELSE density(stopword_count_of(p.text, stoplist), p.word_count)

\* a faulty variant of too_many_links: the comparison is turned round
too_many_links_lt(link_density, max_link_density) ==
    ~density_ge(link_density, max_link_density)

\* the first rule of the decision procedure: link_density > max_link_density
too_many_links(link_density, max_link_density) ==
    density_gt(link_density, max_link_density)

\* a faulty variant of cfclass_of: the copyright rule comes after the rules
\* on length and stop words
cfclass_of_copyright_last(p, stoplist, o) ==
    LET length == Len(p.text)
        stopword_density == stopword_density_of(p, stoplist)
        link_density == link_density_of(p)
    IN  IF too_many_links(link_density, o.max_link_density) THEN "bad"
        ELSE IF select_path(p.dom_path) THEN "bad"
        ELSE IF length < o.length_low
             THEN (IF p.linked_char_count > 0 THEN "bad" ELSE "short")
        ELSE IF density_ge(stopword_density, o.stopwords_high)
             THEN (IF length > o.length_high THEN "good" ELSE "neargood")
        ELSE IF density_ge(stopword_density, o.stopwords_low) THEN "neargood"
        ELSE IF contains(p.text, <<COPYRIGHT_SIGN>>) \/ contains(p.text, COPY_ENTITY)
             THEN "bad"
        ELSE "bad"

\* the decision procedure of classify_paragraphs for one paragraph
cfclass_of(p, stoplist, o) ==
    LET length == Len(p.text)
        stopword_density == stopword_density_of(p, stoplist)
        link_density == link_density_of(p)
    IN  IF too_many_links(link_density, o.max_link_density) THEN "bad"
        ELSE IF contains(p.text, <<COPYRIGHT_SIGN>>) \/ contains(p.text, COPY_ENTITY)
             THEN "bad"
        ELSE IF select_path(p.dom_path) THEN "bad"
        ELSE IF length < o.length_low
             THEN (IF p.linked_char_count > 0 THEN "bad" ELSE "short")
        ELSE IF density_ge(stopword_density, o.stopwords_high)
             THEN (IF length > o.length_high THEN "good" ELSE "neargood")
        ELSE IF density_ge(stopword_density, o.stopwords_low) THEN "neargood"
        ELSE "bad"

\* one iteration of the loop of classify_paragraphs: the fields it sets
classify_paragraph(p, stoplist, o) ==
    ( "stopword_count" :> stopword_count_of(p.text, stoplist)
      @@ "stopword_density" :> stopword_density_of(p, stoplist)
      @@ "link_density" :> link_density_of(p)
      @@ "heading" :> (~o.no_headings /\ heading_path(p.dom_path))
      @@ "cfclass" :> cfclass_of(p, stoplist, o) )
    @@ p

\* the paragraphs on which float(linked_char_count) / length divides by zero
zero_division(ps) ==
    {i \in 1..Len(ps) : ps[i].word_count # 0 /\ Len(ps[i].text) = 0}

\* classify_paragraphs
classify_paragraphs(ps, stoplist, o) ==
    [i \in 1..Len(ps) |-> classify_paragraph(ps[i], stoplist, o)]

---------------------------------------------------------------------------
(* revise_paragraph_classification: the context-sensitive reviser. *)
(* Python's index i is the model's i + 1.                           *)

RECURSIVE get_neighbour(_, _, _, _, _)
\* _get_neighbour
get_neighbour(i, ps, ignore_neargood, inc, boundary) ==
    IF i + inc # boundary
    THEN LET c == ps[i + inc].class IN
         IF c \in {"good", "bad"} THEN c
         ELSE IF c = "neargood" /\ ~ignore_neargood THEN c
         ELSE get_neighbour(i + inc, ps, ignore_neargood, inc, boundary)
    ELSE "bad"

\* a faulty variant of get_prev_neighbour: the start of the list counts as good
get_prev_neighbour_end_good(i, ps, ignore_neargood) ==
    IF \A k \in 1..(i - 1) : ps[k].class \notin {"good", "bad"}
    THEN "good"
    ELSE get_neighbour(i, ps, ignore_neargood, -1, 0)

\* get_prev_neighbour
get_prev_neighbour(i, ps, ignore_neargood) ==
    get_neighbour(i, ps, ignore_neargood, -1, 0)

\* get_next_neighbour
get_next_neighbour(i, ps, ignore_neargood) ==
    get_neighbour(i, ps, ignore_neargood, 1, Len(ps) + 1)

\* "copy classes"
copy_classes(ps) ==
    [i \in 1..Len(ps) |-> ("class" :> ps[i].cfclass) @@ ps[i]]

RECURSIVE good_within(_, _, _, _)
\* the while loop of both heading passes, from j with the distance so far:
\* TRUE when it reaches a good paragraph before the distance exceeds the limit
good_within(ps, j, distance, max_heading_distance) ==
    IF j <= Len(ps) /\ distance <= max_heading_distance
    THEN IF ps[j].class = "good" THEN TRUE
         ELSE good_within(ps, j + 1, distance + Len(ps[j].text),
                          max_heading_distance)
    ELSE FALSE

RECURSIVE good_headings_from(_, _, _)
\* "good headings": the loop from index i on, in place
good_headings_from(ps, i, max_heading_distance) ==
    IF i > Len(ps) THEN ps
    ELSE IF ~(ps[i].heading /\ ps[i].class = "short")
         THEN good_headings_from(ps, i + 1, max_heading_distance)
         ELSE good_headings_from(
                  IF good_within(ps, i + 1, 0, max_heading_distance)
                  THEN [ps EXCEPT ![i].class = "neargood"]
                  ELSE ps,
                  i + 1, max_heading_distance)

\* a faulty variant of good_headings: only the paragraph right after the
\* heading is looked at
good_headings_adjacent(ps, max_heading_distance) ==
    [i \in 1..Len(ps) |->
        IF /\ ps[i].heading /\ ps[i].class = "short"
           /\ i < Len(ps) /\ ps[i + 1].class = "good"
        THEN [ps[i] EXCEPT !.class = "neargood"]
        ELSE ps[i]]

\* "good headings" (pass 1)
good_headings(ps, max_heading_distance) ==
    good_headings_from(ps, 1, max_heading_distance)

\* a faulty variant of new_class: the neargood neighbours are not consulted
new_class_strict(ps, i) ==
    IF {get_prev_neighbour(i, ps, TRUE), get_next_neighbour(i, ps, TRUE)}
           = {"good"}
    THEN "good"
    ELSE "bad"

\* the entry of new_classes for the short paragraph i
new_class(ps, i) ==
    LET prev_neighbour == get_prev_neighbour(i, ps, TRUE)
        next_neighbour == get_next_neighbour(i, ps, TRUE)
        neighbours == {prev_neighbour, next_neighbour}
    IN  IF neighbours = {"good"} THEN "good"
        ELSE IF neighbours = {"bad"} THEN "bad"
        ELSE IF \/ (prev_neighbour = "bad"
                    /\ get_prev_neighbour(i, ps, FALSE) = "neargood")
                \/ (next_neighbour = "bad"
                    /\ get_next_neighbour(i, ps, FALSE) = "neargood")
             THEN "good"
        ELSE "bad"

\* a faulty variant of classify_short: the new label is written to cfclass too
classify_short_cfclass(ps) ==
    [i \in 1..Len(ps) |->
        IF ps[i].class = "short"
        THEN [ps[i] EXCEPT !.class = new_class(ps, i),
                           !.cfclass = new_class(ps, i)]
        ELSE ps[i]]

\* a faulty variant of classify_short: the short paragraphs are left as they are
classify_short_skip(ps) == ps

\* "classify short" (pass 2): new_classes is computed from the list as it
\* stands, then written
classify_short(ps) ==
    [i \in 1..Len(ps) |->
        IF ps[i].class = "short"
        THEN [ps[i] EXCEPT !.class = new_class(ps, i)]
        ELSE ps[i]]

RECURSIVE revise_neargood_from(_, _)
\* "revise neargood": the loop from index i on, in place
revise_neargood_from(ps, i) ==
    IF i > Len(ps) THEN ps
    ELSE IF ps[i].class # "neargood" THEN revise_neargood_from(ps, i + 1)
    ELSE LET prev_neighbour == get_prev_neighbour(i, ps, TRUE)
             next_neighbour == get_next_neighbour(i, ps, TRUE)
         IN  revise_neargood_from(
                 [ps EXCEPT ![i].class =
                     IF <<prev_neighbour, next_neighbour>> = <<"bad", "bad">>
                     THEN "bad" ELSE "good"],
                 i + 1)

\* a faulty variant of revise_neargood: one bad neighbour is enough for bad
revise_neargood_either_bad(ps) ==
    [i \in 1..Len(ps) |->
        IF ps[i].class = "neargood"
        THEN [ps[i] EXCEPT !.class =
                 IF "bad" \in {get_prev_neighbour(i, ps, TRUE),
                               get_next_neighbour(i, ps, TRUE)}
                 THEN "bad" ELSE "good"]
        ELSE ps[i]]

\* "revise neargood" (pass 3)
revise_neargood(ps) == revise_neargood_from(ps, 1)

RECURSIVE more_good_headings_from(_, _, _)
\* "more good headings": the loop from index i on, in place
more_good_headings_from(ps, i, max_heading_distance) ==
    IF i > Len(ps) THEN ps
    ELSE IF ~(ps[i].heading /\ ps[i].class = "bad" /\ ps[i].cfclass # "bad")
         THEN more_good_headings_from(ps, i + 1, max_heading_distance)
         ELSE more_good_headings_from(
                  IF good_within(ps, i + 1, 0, max_heading_distance)
                  THEN [ps EXCEPT ![i].class = "good"]
                  ELSE ps,
                  i + 1, max_heading_distance)

\* a faulty variant of more_good_headings: a heading that was bad from the
\* start is promoted too
more_good_headings_any(ps, max_heading_distance) ==
    [i \in 1..Len(ps) |->
        IF /\ ps[i].heading /\ ps[i].class = "bad"
           /\ good_within(ps, i + 1, 0, max_heading_distance)
        THEN [ps[i] EXCEPT !.class = "good"]
        ELSE ps[i]]

\* a faulty variant of more_good_headings: the pass is left out
more_good_headings_skip(ps, max_heading_distance) == ps

\* "more good headings" (pass 4)
more_good_headings(ps, max_heading_distance) ==
    more_good_headings_from(ps, 1, max_heading_distance)

\* revise_paragraph_classification
revise_paragraph_classification(ps, max_heading_distance) ==
    more_good_headings(
        revise_neargood(
            classify_short(
                good_headings(copy_classes(ps), max_heading_distance))),
        max_heading_distance)

\* the list after each of the passes of revise_paragraph_classification; the
\* first pass overwrites every class, so the function may be given the list
\* it has left as well as the list it was given
revise_passes(ps, max_heading_distance) ==
    LET p0 == copy_classes(ps)
        p1 == good_headings(p0, max_heading_distance)
        p2 == classify_short(p1)
        p3 == revise_neargood(p2)
        p4 == more_good_headings(p3, max_heading_distance)
    IN  [copy_classes |-> p0, good_headings |-> p1, classify_short |-> p2,
         revise_neargood |-> p3, more_good_headings |-> p4]

---------------------------------------------------------------------------
(* Inputs of the model. *)

\* the element names of the documents: a PARAGRAPH_TAGS name that is also a
\* heading, the line break, and the link (an ordinary inline tag as well)
Tags == {"h1", "br", "a"}

\* the text nodes of the documents: a word, a word after white-space, a word
\* before a tab, and a blank node
Contents == {<<"a">>, <<" ", "a">>, <<"a", "\t">>, <<" ">>}

\* the stop-list of the calls
Stoplist == {<<"a">>}

\* the keyword arguments of a call, thresholds scaled to the short texts of
\* the model; densities in hundredths
options(length_low, length_high, stopwords_low, stopwords_high, max_link_density, max_heading_distance, no_headings) ==
    [length_low |-> length_low, length_high |-> length_high,
     stopwords_low |-> stopwords_low, stopwords_high |-> stopwords_high,
     max_link_density |-> max_link_density,
     max_heading_distance |-> max_heading_distance,
     no_headings |-> no_headings]

\* the configurations of the segmenter's runs
SegOptions == {options(2, 3, 30, 32, 20, 2, FALSE)}

\* the value of a variable a specification does not use
Unused == <<>>

---------------------------------------------------------------------------
(* Spec: make_paragraphs on a SAX event stream, then classify_paragraphs. *)

\* the SAX events, as the history records them
StartEvent(name) == [kind |-> "start", name |-> name]
EndEvent(name) == [kind |-> "end", name |-> name]
TextEvent(content) == [kind |-> "text", content |-> content]

\* the innermost open element, "" at the top level
OpenElement == IF handler.dom = <<>> THEN "" ELSE handler.dom[Len(handler.dom)]

\* make_paragraphs: handler = SaxPragraphMaker()
Init ==
    /\ pc = "saxify"
    /\ handler = SaxPragraphMaker
    /\ events = <<>>
    /\ paragraphs = Unused
    /\ opts = Unused
    /\ other = Unused

\* saxify delivers a start tag: of the root element first, of a child of the
\* innermost open element later; br is a void element, nothing opens inside it
StartElement(name) ==
    /\ pc = "saxify"
    /\ Len(events) < MaxEvents
    /\ events = <<>> \/ handler.dom # <<>>
    /\ OpenElement # "br"
    /\ handler' = startElementNS(handler, name)
    /\ events' = Append(events, StartEvent(name))
    /\ UNCHANGED <<pc, paragraphs, opts, other>>

\* saxify delivers the end tag of the innermost open element
EndElement ==
    /\ pc = "saxify"
    /\ Len(events) < MaxEvents
    /\ handler.dom # <<>>
    /\ handler' = endElementNS(handler, OpenElement)
    /\ events' = Append(events, EndEvent(OpenElement))
    /\ UNCHANGED <<pc, paragraphs, opts, other>>

\* saxify delivers a text node: the text of the innermost open element or
\* the tail of a child just closed, so never two text nodes in a row
Characters(content) ==
    /\ pc = "saxify"
    /\ Len(events) < MaxEvents
    /\ handler.dom # <<>>
    /\ OpenElement # "br"
    /\ events[Len(events)].kind # "text"
    /\ handler' = characters(handler, content)
    /\ events' = Append(events, TextEvent(content))
    /\ UNCHANGED <<pc, paragraphs, opts, other>>

\* saxify ends the document once the root element is closed; make_paragraphs
\* returns handler.paragraphs
EndDocument ==
    /\ pc = "saxify"
    /\ events # <<>>
    /\ handler.dom = <<>>
    /\ handler' = endDocument(handler)
    /\ paragraphs' = handler'.paragraphs
    /\ pc' = "classify_paragraphs"
    /\ UNCHANGED <<events, opts, other>>

\* classify_paragraphs(paragraphs, stoplist, ...); the division by
\* len(text) raises ZeroDivisionError on an empty text with words
Classify(o) ==
    /\ pc = "classify_paragraphs"
    /\ opts' = o
    /\ IF zero_division(paragraphs) = {}
       THEN /\ paragraphs' = classify_paragraphs(paragraphs, Stoplist, o)
            /\ pc' = "done"
       ELSE /\ paragraphs' = paragraphs
            /\ pc' = "ZeroDivisionError"
    /\ UNCHANGED <<handler, events, other>>

Next ==
    \/ \E name \in Tags : StartElement(name)
    \/ EndElement
    \/ \E content \in Contents : Characters(content)
    \/ EndDocument
    \/ \E o \in SegOptions : Classify(o)

Spec == Init /\ [][Next]_vars

---------------------------------------------------------------------------
(* The segmenter's claims, under Spec. *)

\* a text event characters() does not skip
IsText(e) == e.kind = "text" /\ ~is_blank(e.content)

\* the events of the history that are such text events, in document order
TextEvents == SelectSeq(events, IsText)

RECURSIVE all_text_nodes(_)
\* the text nodes of a paragraph list, in output order
all_text_nodes(ps) ==
    IF ps = <<>> THEN <<>>
    ELSE Head(ps).text_nodes \o all_text_nodes(Tail(ps))

\* the segmenter has returned
Segmented == pc # "saxify"

\* the paragraphs emitted for the events so far: those make_paragraphs has
\* returned or, in the middle of the stream, would return if the document
\* ended here
Emitted ==
    IF pc = "saxify" THEN start_new_pragraph(handler).paragraphs ELSE paragraphs

\* the classifier has returned
Classified == pc = "done"

\* C2: every returned paragraph has link_density in [0,1], that is
\* 0 <= linked_char_count <= len(text) wherever the code divides the two.
C2_LinkDensityInUnitInterval ==
    Classified =>
        \A i \in 1..Len(paragraphs) :
            /\ 0 <= paragraphs[i].link_density.num
            /\ paragraphs[i].link_density.num <= paragraphs[i].link_density.den

\* C3: the word_count the segmenter reports for an emitted paragraph is the
\* number of white-space separated words of its finished text.
C3_WordCountIsWordsOfText ==
    Segmented =>
        \A i \in 1..Len(paragraphs) :
            paragraphs[i].word_count = Len(split(paragraphs[i].text))

\* C8: no text is lost, duplicated or reordered: after every event, the text
\* nodes of the emitted paragraphs, concatenated in output order, are the
\* non-blank text events in document order (each node the white-space
\* normalised content of its event, which is how the segmenter stores a text
\* event).
C8_TextNodesAreTextEvents ==
    all_text_nodes(Emitted) =
        [k \in 1..Len(TextEvents) |->
            normalize_whitespace(TextEvents[k].content)]

\* C8's case: two paragraphs came out of a stream that held a blank text
\* node and a text node whose white-space was rewritten
C8_Witness ==
    /\ Segmented
    /\ Len(paragraphs) >= 2
    /\ \E k \in 1..Len(events) :
           events[k].kind = "text" /\ is_blank(events[k].content)
    /\ \E k \in 1..Len(TextEvents) :
           normalize_whitespace(TextEvents[k].content) # TextEvents[k].content

\* the paragraph boundaries C9 names: a start or end event of a
\* PARAGRAPH_TAGS name, or a br start event whose previous start event was a
\* br with no non-blank text since
IsBoundary(m) ==
    LET e == events[m] IN
    \/ e.kind \in {"start", "end"} /\ e.name \in PARAGRAPH_TAGS
    \/ /\ e.kind = "start"
       /\ e.name = "br"
       /\ \E l \in 1..(m - 1) :
              /\ events[l].kind = "start"
              /\ events[l].name = "br"
              /\ \A x \in (l + 1)..(m - 1) :
                     events[x].kind # "start" /\ ~IsText(events[x])

\* the double-br boundaries among them
IsDoubleBr(m) ==
    IsBoundary(m) /\ events[m].kind = "start" /\ events[m].name = "br"

\* how many non-blank text events the history holds up to position i
TextRank(i) == Cardinality({x \in 1..i : IsText(events[x])})

RECURSIVE paragraph_of_node(_, _)
\* the index of the paragraph of ps that holds the k-th text node
paragraph_of_node(ps, k) ==
    IF k <= Len(Head(ps).text_nodes) THEN 1
    ELSE 1 + paragraph_of_node(Tail(ps), k - Len(Head(ps).text_nodes))

\* the emitted paragraph the text event at position i ended up in
ParagraphOfEvent(i) == paragraph_of_node(Emitted, TextRank(i))

\* C9: after every event, two non-blank text events are in the same emitted
\* paragraph if and only if no paragraph boundary lies between them.
C9_SameParagraphIffNoBoundary ==
    \A i, j \in 1..Len(events) :
        (i < j /\ IsText(events[i]) /\ IsText(events[j])) =>
            ( ParagraphOfEvent(i) = ParagraphOfEvent(j)
              <=> ~(\E m \in (i + 1)..(j - 1) : IsBoundary(m)) )

\* C9's case: text before and after a double br, with no PARAGRAPH_TAGS event
\* in the stream, came out as two paragraphs
C9_Witness ==
    /\ Segmented
    /\ \A m \in 1..Len(events) :
           events[m].kind = "text" \/ events[m].name \notin PARAGRAPH_TAGS
    /\ \E i, j \in 1..Len(events) :
           /\ i < j /\ IsText(events[i]) /\ IsText(events[j])
           /\ \E m \in (i + 1)..(j - 1) : IsDoubleBr(m)
           /\ ParagraphOfEvent(i) # ParagraphOfEvent(j)

\* C10: every returned paragraph has stopword_density in [0,1]: the stop
\* words counted in the finished text are at most the reported word_count,
\* and the density is 0 when word_count is 0.
C10_StopwordDensityInUnitInterval ==
    Classified =>
        \A i \in 1..Len(paragraphs) :
            LET p == paragraphs[i] IN
            /\ p.stopword_count <= p.word_count
            /\ p.stopword_density.den > 0
            /\ 0 <= p.stopword_density.num
            /\ p.stopword_density.num <= p.stopword_density.den
            /\ p.word_count = 0 => p.stopword_density.num = 0

\* C10's case: a paragraph whose text nodes were joined into fewer words
\* than the segmenter counted, one of them a stop word
C10_Witness ==
    /\ Classified
    /\ \E i \in 1..Len(paragraphs) :
           /\ Len(split(paragraphs[i].text)) < paragraphs[i].word_count
           /\ paragraphs[i].stopword_count >= 1

---------------------------------------------------------------------------
(* SpecRev: revise_paragraph_classification on a classified paragraph list. *)

\* the texts of the reviser's paragraphs: of length 1 and 2
RevTexts == {<<"a">>, <<"a", "a">>}

\* the max_heading_distance values of the reviser's calls: reaching over no
\* paragraph, over one of length 1, over one of length 2 or two of length 1
HeadingDistances == {0, 1, 2}

\* the classes classify_paragraphs assigns
Classes == {"good", "bad", "short", "neargood"}

\* a paragraph list as classify_paragraphs leaves it, as far as the reviser
\* reads it: the texts, heading flags and context-free classes
rev_paragraphs(tx, hd, cf) ==
    [i \in DOMAIN tx |-> [text |-> tx[i], heading |-> hd[i], cfclass |-> cf[i]]]

\* what one call of classify_paragraphs can leave: a short paragraph is
\* shorter than length_low, a good or neargood one is not
classifiable(ps) ==
    \A i, j \in 1..Len(ps) :
        (ps[i].cfclass = "short" /\ ps[j].cfclass \in {"good", "neargood"})
        => Len(ps[i].text) < Len(ps[j].text)

InitRev ==
    /\ pc = "revise_paragraph_classification"
    /\ \E n \in 1..MaxParagraphs :
           \E tx \in [1..n -> RevTexts], hd \in [1..n -> BOOLEAN],
              cf \in [1..n -> Classes] :
               /\ classifiable(rev_paragraphs(tx, hd, cf))
               /\ paragraphs = rev_paragraphs(tx, hd, cf)
    /\ \E d \in HeadingDistances : opts = [max_heading_distance |-> d]
    /\ handler = Unused
    /\ events = Unused
    /\ other = Unused

\* revise_paragraph_classification(paragraphs, max_heading_distance)
Revise ==
    /\ pc = "revise_paragraph_classification"
    /\ paragraphs' =
           revise_paragraph_classification(paragraphs, opts.max_heading_distance)
    /\ pc' = "done"
    /\ UNCHANGED <<handler, events, opts, other>>

NextRev == Revise

SpecRev == InitRev /\ [][NextRev]_vars

\* the reviser has returned
Revised == pc = "done"

\* the list as each pass of the call that has returned left it
AfterPass == revise_passes(paragraphs, opts.max_heading_distance)

RECURSIVE text_length(_, _, _)
\* the summed text length of the paragraphs i..j of a list
text_length(ps, i, j) ==
    IF i > j THEN 0 ELSE Len(ps[i].text) + text_length(ps, i + 1, j)

\* paragraph j comes after heading i with at most max_heading_distance
\* characters of text strictly between them
WithinHeadingDistance(i, j) ==
    /\ i < j
    /\ text_length(paragraphs, i + 1, j - 1) <= opts.max_heading_distance

\* C1: after revise_paragraph_classification every paragraph's class is good
\* or bad.
C1_FinalClassGoodOrBad ==
    Revised =>
        \A i \in 1..Len(paragraphs) : paragraphs[i].class \in {"good", "bad"}

\* C1's case: the list held a short paragraph, a neargood one and a short
\* heading that pass 1 relabelled
C1_Witness ==
    /\ Revised
    /\ \E i \in 1..Len(paragraphs) : paragraphs[i].cfclass = "short"
    /\ \E i \in 1..Len(paragraphs) : paragraphs[i].cfclass = "neargood"
    /\ \E i \in 1..Len(paragraphs) :
           /\ paragraphs[i].cfclass = "short"
           /\ AfterPass.good_headings[i].class = "neargood"

\* C5: a heading whose cfclass is short or neargood, followed within
\* max_heading_distance characters by a paragraph whose final class is good,
\* has final class good.
C5_HeadingBeforeGoodIsGood ==
    Revised =>
        \A i, j \in 1..Len(paragraphs) :
            ( /\ paragraphs[i].heading
              /\ paragraphs[i].cfclass \in {"short", "neargood"}
              /\ WithinHeadingDistance(i, j)
              /\ paragraphs[j].class = "good" )
            => paragraphs[i].class = "good"

\* C6: a short heading followed within max_heading_distance characters by a
\* paragraph whose cfclass is good has final class good.
C6_ShortHeadingBeforeCfGoodIsGood ==
    Revised =>
        \A i, j \in 1..Len(paragraphs) :
            ( /\ paragraphs[i].heading
              /\ paragraphs[i].cfclass = "short"
              /\ WithinHeadingDistance(i, j)
              /\ paragraphs[j].cfclass = "good" )
            => paragraphs[i].class = "good"

\* C6's case: such a heading, which pass 1 made neargood and pass 3 bad (both
\* its strict neighbours being bad), ends good
C6_Witness ==
    /\ Revised
    /\ \E i, j \in 1..Len(paragraphs) :
           /\ paragraphs[i].heading
           /\ paragraphs[i].cfclass = "short"
           /\ WithinHeadingDistance(i, j)
           /\ paragraphs[j].cfclass = "good"
           /\ AfterPass.good_headings[i].class = "neargood"
           /\ AfterPass.revise_neargood[i].class = "bad"
           /\ paragraphs[i].class = "good"

---------------------------------------------------------------------------
(* SpecMono: classify_paragraphs and revise_paragraph_classification on one *)
(* paragraph list under two values of max_link_density.                     *)

\* longest paragraph list of the two-run comparison
MaxMonoParagraphs == 3

\* the texts of the comparison: with length_low = 2 and length_high = 3 and
\* the stop-list {a}, a short one, a neargood one, a good one and a bad one
MonoTexts ==
    {<<"a">>, <<"a", " ", "a">>, <<"a", " ", "a", " ", "a">>, <<"b", " ", "b">>}

\* the DOM paths of the comparison: an ordinary paragraph and a heading
MonoPaths == {<<"p">>, <<"p", "h1">>}

\* the numbers of linked characters of the comparison
MonoLinked == {0, 1}

\* the max_link_density values of the comparison, in hundredths
LinkDensities == {0, 20, 50}

\* a paragraph as the segmenter emits it for one text node
segmented(text, dom_path, linked_char_count) ==
    [text |-> text, dom_path |-> dom_path, text_nodes |-> <<text>>,
     word_count |-> Len(split(text)), linked_char_count |-> linked_char_count,
     tag_count |-> 0]

\* the call of the comparison with max_link_density set
mono_options(max_link_density) ==
    options(2, 3, 30, 32, max_link_density, 3, FALSE)

InitMono ==
    /\ pc = "classify_paragraphs"
    /\ \E n \in 1..MaxMonoParagraphs :
           \E tx \in [1..n -> MonoTexts], dp \in [1..n -> MonoPaths],
              lc \in [1..n -> MonoLinked] :
               /\ \A i \in 1..n : lc[i] <= Len(tx[i])
               /\ paragraphs = [i \in 1..n |-> segmented(tx[i], dp[i], lc[i])]
    /\ \E lo, hi \in LinkDensities :
           /\ lo < hi
           /\ opts = mono_options(lo)
           /\ other = [opts |-> mono_options(hi), paragraphs |-> paragraphs]
    /\ handler = Unused
    /\ events = Unused

\* classify_paragraphs, in both calls
ClassifyBoth ==
    /\ pc = "classify_paragraphs"
    /\ paragraphs' = classify_paragraphs(paragraphs, Stoplist, opts)
    /\ other' = [other EXCEPT !.paragraphs =
                     classify_paragraphs(@, Stoplist, other.opts)]
    /\ pc' = "revise_paragraph_classification"
    /\ UNCHANGED <<handler, events, opts>>

\* revise_paragraph_classification, in both calls
ReviseBoth ==
    /\ pc = "revise_paragraph_classification"
    /\ paragraphs' =
           revise_paragraph_classification(paragraphs, opts.max_heading_distance)
    /\ other' = [other EXCEPT !.paragraphs =
                     revise_paragraph_classification(
                         @, other.opts.max_heading_distance)]
    /\ pc' = "done"
    /\ UNCHANGED <<handler, events, opts>>

NextMono == ClassifyBoth \/ ReviseBoth

SpecMono == InitMono /\ [][NextMono]_vars

\* C4: with every other option fixed, a paragraph whose final class is good
\* under the lower max_link_density is good under the higher one too.
C4_RaisingLinkDensityKeepsGood ==
    Revised =>
        \A i \in 1..Len(paragraphs) :
            paragraphs[i].class = "good" => other.paragraphs[i].class = "good"

\* C4's case: raising max_link_density changed the context-free class of one
\* paragraph and with it the final class of another one, next to a paragraph
\* that is good in both runs
C4_Witness ==
    /\ Revised
    /\ \E i, j, k \in 1..Len(paragraphs) :
           /\ i # j
           /\ paragraphs[i].cfclass = "bad"
           /\ other.paragraphs[i].cfclass # "bad"
           /\ paragraphs[j].cfclass = other.paragraphs[j].cfclass
           /\ paragraphs[j].class = "bad"
           /\ other.paragraphs[j].class = "good"
           /\ paragraphs[k].class = "good"

---------------------------------------------------------------------------
(* SpecDrv: justext, the driver, on a document and its keyword arguments. *)

\* the SAX events of an element with the given events inside
Element(name, inside) == <<StartEvent(name)>> \o inside \o <<EndEvent(name)>>

\* add_kw_tags: a non-blank text run of the DOM, wrapped in a kw element
Kw(content) == Element("kw", <<TextEvent(content)>>)

\* the html and body elements around the events of a page
Page(inside) == Element("html", Element("body", inside))

\* the pages of the driver's calls, each given as the SAX events of its
\* cleaned DOM: a short paragraph; a list of links; a heading before a
\* paragraph; two texts a double br apart; a copyright line; a dropdown
Documents ==
    { Page(Element("p", Kw(<<"a">>))),
      Page(Element("ul",
               Element("li", Element("a", Kw(<<"a">>)))
               \o Element("li", Element("a", Kw(<<"b">>))))),
      Page(Element("h2", Kw(<<"a">>))
           \o Element("p", Kw(<<"a", " ", "a", " ", "a">>))),
      Page(Element("div",
               Kw(<<"a">>) \o Element("br", <<>>) \o Element("br", <<>>)
               \o Kw(<<"b">>))),
      Page(Element("p", Kw(<<COPYRIGHT_SIGN, " ", "a", " ", "a">>))),
      Page(Element("select", Element("option", Kw(<<"a", " ", "a">>)))) }

\* the keyword arguments of the driver's calls: two sensible ones, then a
\* negative length_low, a max_link_density above 1, a negative
\* stopwords_low and a negative max_heading_distance
DriverOptions ==
    { options(2, 3, 30, 32, 20, 2, FALSE),
      options(2, 3, 30, 32, 20, 2, TRUE),
      options(-1, 3, 30, 32, 20, 2, FALSE),
      options(2, 3, 30, 32, 150, 2, FALSE),
      options(2, 3, -10, 32, 20, 2, FALSE),
      options(2, 3, 30, 32, 20, -1, FALSE) }

\* SaxPragraphMaker's handler called for one event
handle(h, e) ==
    IF e.kind = "start" THEN startElementNS(h, e.name)
    ELSE IF e.kind = "end" THEN endElementNS(h, e.name)
    ELSE characters(h, e.content)

RECURSIVE saxify(_, _)
\* lxml.sax.saxify(root, handler): the events of the tree in document
\* order, then endDocument
saxify(evs, h) ==
    IF evs = <<>> THEN endDocument(h)
    ELSE saxify(Tail(evs), handle(h, Head(evs)))

\* make_paragraphs
make_paragraphs(root) == saxify(root, SaxPragraphMaker).paragraphs

\* justext(html_text, stoplist, ...) has been called
InitDrv ==
    /\ pc = "preprocess"
    /\ other \in Documents
    /\ opts \in DriverOptions
    /\ events = Unused
    /\ handler = Unused
    /\ paragraphs = Unused

\* root = preprocess(html_text, ...); the root is kept as its SAX events
Preprocess ==
    /\ pc = "preprocess"
    /\ events' = other
    /\ pc' = "make_paragraphs"
    /\ UNCHANGED <<handler, paragraphs, opts, other>>

\* paragraphs = make_paragraphs(root)
MakeParagraphs ==
    /\ pc = "make_paragraphs"
    /\ handler' = saxify(events, SaxPragraphMaker)
    /\ paragraphs' = make_paragraphs(events)
    /\ pc' = "classify_paragraphs"
    /\ UNCHANGED <<events, opts, other>>

\* classify_paragraphs(paragraphs, stoplist, length_low, ...)
ClassifyParagraphs ==
    /\ pc = "classify_paragraphs"
    /\ IF zero_division(paragraphs) = {}
       THEN /\ paragraphs' = classify_paragraphs(paragraphs, Stoplist, opts)
            /\ pc' = "revise_paragraph_classification"
       ELSE /\ paragraphs' = paragraphs
            /\ pc' = "ZeroDivisionError"
    /\ UNCHANGED <<handler, events, opts, other>>

\* revise_paragraph_classification(paragraphs, max_heading_distance);
\* return paragraphs
ReviseParagraphs ==
    /\ pc = "revise_paragraph_classification"
    /\ paragraphs' =
           revise_paragraph_classification(paragraphs, opts.max_heading_distance)
    /\ pc' = "done"
    /\ UNCHANGED <<handler, events, opts, other>>

NextDrv ==
    \/ Preprocess
    \/ MakeParagraphs
    \/ ClassifyParagraphs
    \/ ReviseParagraphs

SpecDrv == InitDrv /\ [][NextDrv]_vars

\* a tunable outside its sensible range: a negative length or distance, or
\* a density outside [0,1]
OutOfRange(o) ==
    \/ o.length_low < 0
    \/ o.length_high < 0
    \/ o.max_heading_distance < 0
    \/ \E t \in {o.stopwords_low, o.stopwords_high, o.max_link_density} :
           t < 0 \/ t > 100

\* C7: a call with a tunable out of range is refused before any processing:
\* the driver raises JustextInvalidOptions, no step runs and nothing is
\* returned.
C7_OutOfRangeOptionsRefused ==
    OutOfRange(opts) => pc \in {"preprocess", "JustextInvalidOptions"}

---------------------------------------------------------------------------
(* The frame of the classifier and the reviser, under SpecMono. *)

\* the fields of a paragraph the segmenter sets and later stages must keep
SegmenterFields ==
    {"text", "dom_path", "word_count", "linked_char_count", "tag_count"}

\* the fields of a paragraph the classifier sets and the reviser must keep
ClassifierFields ==
    {"stopword_count", "stopword_density", "link_density", "heading", "cfclass"}

\* the paragraphs p and q carry the same values in the given fields
same_on(p, q, fields) ==
    \A f \in fields : f \in DOMAIN p /\ f \in DOMAIN q /\ p[f] = q[f]

\* the list after has the paragraphs of the list before, in their order,
\* with the given fields untouched
kept(before, after, fields) ==
    /\ Len(after) = Len(before)
    /\ \A i \in 1..Len(before) : same_on(before[i], after[i], fields)

\* the reviser added or rewrote no field but class
only_class_written(before, after) ==
    \A i \in 1..Len(before) :
        /\ DOMAIN after[i] = DOMAIN before[i] \cup {"class"}
        /\ \A f \in DOMAIN before[i] \ {"class"} : after[i][f] = before[i][f]

\* C11: the classifier and the reviser never add, remove or reorder
\* paragraphs and never change text, dom_path, word_count, linked_char_count
\* or tag_count; the reviser also keeps cfclass, heading and the densities
\* and writes no field but class.
C11_StagesKeepTheParagraphs ==
    [][ /\ pc = "classify_paragraphs" =>
            /\ kept(paragraphs, paragraphs', SegmenterFields)
            /\ kept(other.paragraphs, other'.paragraphs, SegmenterFields)
        /\ pc = "revise_paragraph_classification" =>
            /\ kept(paragraphs, paragraphs',
                    SegmenterFields \cup ClassifierFields)
            /\ only_class_written(paragraphs, paragraphs')
            /\ kept(other.paragraphs, other'.paragraphs,
                    SegmenterFields \cup ClassifierFields)
            /\ only_class_written(other.paragraphs, other'.paragraphs) ]_vars

\* C11's case: both stages have run on a list of three different paragraphs
\* and the reviser changed the label of one of them
C11_Witness ==
    /\ Revised
    /\ Len(paragraphs) = 3
    /\ \A i, j \in 1..3 : i # j => paragraphs[i].text # paragraphs[j].text
    /\ \E i \in 1..3 : paragraphs[i].class # paragraphs[i].cfclass

---------------------------------------------------------------------------
(* SpecDec: decode_html on a byte string. *)

\* longest byte string handed to decode_html
MaxBytes == 3

\* the bytes of the model: an ASCII letter, the two bytes of a two-byte UTF-8
\* sequence, and a byte no UTF-8 text contains
Bytes == {"a", "C3", "A9", "FF"}

\* the codecs Python knows, of the names the model uses
Codecs == {"utf8", "ascii", "latin1"}

\* the encoding names of the model: the codecs and a name no codec has
EncodingNames == Codecs \cup {"x-unknown"}

\* the enc_errors policies
ErrorPolicies == {"strict", "replace", "ignore"}

\* the character a codec's `replace` policy puts for an undecodable byte
REPLACEMENT == "U+FFFD"

\* how many bytes of b its first character takes under a codec, 0 when the
\* first byte is undecodable
char_width(codec, b) ==
    IF codec = "latin1" THEN 1
    ELSE IF b[1] = "a" THEN 1
    ELSE IF codec = "utf8" /\ b[1] = "C3" /\ Len(b) >= 2 /\ b[2] = "A9" THEN 2
    ELSE 0

\* the character the first bytes of b decode to
first_char(codec, b) ==
    IF b[1] = "a" THEN "a"
    ELSE IF codec = "utf8" THEN "U+00E9"
    ELSE IF b[1] = "C3" THEN "U+00C3"
    ELSE IF b[1] = "A9" THEN "U+00A9"
    ELSE "U+00FF"

RECURSIVE decodable(_, _)
\* the codec decodes every byte of b
decodable(codec, b) ==
    \/ b = <<>>
    \/ /\ char_width(codec, b) > 0
       /\ decodable(codec, SubSeq(b, char_width(codec, b) + 1, Len(b)))

RECURSIVE decoded_text(_, _, _)
\* the characters of b under a codec, an undecodable byte replaced or
\* dropped as the policy says
decoded_text(codec, b, errors) ==
    IF b = <<>> THEN <<>>
    ELSE IF char_width(codec, b) > 0
         THEN <<first_char(codec, b)>>
              \o decoded_text(codec, SubSeq(b, char_width(codec, b) + 1, Len(b)),
                              errors)
         ELSE (IF errors = "replace" THEN <<REPLACEMENT>> ELSE <<>>)
              \o decoded_text(codec, Tail(b), errors)

\* a value returned, and an exception raised
returned(value) == [kind |-> "return", value |-> value]
raised(exception) == [kind |-> "raise", exception |-> exception]

\* html_string.decode(encoding, errors)
decode(b, encoding, errors) ==
    IF encoding \notin Codecs THEN raised("LookupError")
    ELSE IF errors = "strict" /\ ~decodable(encoding, b)
         THEN raised("UnicodeDecodeError")
    ELSE returned(decoded_text(encoding, b, errors))

\* the part of decode_html after the meta tag: utf8, then default_encoding
decode_unknown(b, default_encoding) ==
    LET utf == decode(b, "utf8", "strict") IN
    IF utf # raised("UnicodeDecodeError") THEN utf
    ELSE LET lucky == decode(b, default_encoding, "strict") IN
         IF lucky = raised("UnicodeDecodeError")
         THEN raised("JustextError")
         ELSE lucky

\* decode_html(html_string, encoding, default_encoding, errors); the
\* html_string is given as its bytes and the charset its meta tag declares
\* ("" when CHARSET_META_TAG_PATTERN finds none), encoding "" is None
decode_html(html_string, encoding, default_encoding, errors) ==
    IF encoding # "" THEN decode(html_string.bytes, encoding, errors)
    ELSE LET declared == decode(html_string.bytes, html_string.charset, errors) IN
         IF html_string.charset # "" /\ declared # raised("LookupError")
         THEN declared
         ELSE decode_unknown(html_string.bytes, default_encoding)

\* the byte strings of the model
ByteStrings == UNION {[1..n -> Bytes] : n \in 0..MaxBytes}

\* decode_html is called on a byte string
InitDec ==
    /\ pc = "decode_html"
    /\ \E b \in ByteStrings, charset \in EncodingNames \cup {""} :
           other = [html_string |-> [bytes |-> b, charset |-> charset],
                    decoded |-> Unused]
    /\ \E encoding \in {"", "latin1", "x-unknown"},
          default_encoding \in EncodingNames, errors \in ErrorPolicies :
           opts = [encoding |-> encoding, default_encoding |-> default_encoding,
                   enc_errors |-> errors]
    /\ handler = Unused
    /\ events = Unused
    /\ paragraphs = Unused

\* preprocess: decoded_html = decode_html(html_text, encoding,
\* default_encoding, enc_errors); an exception leaves preprocess
DecodeHtml ==
    /\ pc = "decode_html"
    /\ LET r == decode_html(other.html_string, opts.encoding,
                            opts.default_encoding, opts.enc_errors)
       IN  /\ other' = [other EXCEPT !.decoded = r]
           /\ pc' = IF r.kind = "return" THEN "fromstring" ELSE r.exception
    /\ UNCHANGED <<handler, events, paragraphs, opts>>

NextDec == DecodeHtml

SpecDec == InitDec /\ [][NextDec]_vars

\* the attempts of the fallback chain, in order: the declared charset (if
\* any) under the caller's policy, then utf-8, then default_encoding
Strategies ==
    (IF other.html_string.charset # ""
     THEN <<decode(other.html_string.bytes, other.html_string.charset,
                   opts.enc_errors)>>
     ELSE <<>>)
    \o <<decode(other.html_string.bytes, "utf8", "strict"),
         decode(other.html_string.bytes, opts.default_encoding, "strict")>>

\* C12: on bytes with no forced encoding, decode_html returns what the first
\* strategy that decodes the bytes returns, and raises JustextError, and
\* nothing else, exactly when every strategy has failed.
C12_FallbackChainThenDecodeFailure ==
    (pc # "decode_html" /\ opts.encoding = "") =>
        IF \E k \in 1..Len(Strategies) : Strategies[k].kind = "return"
        THEN \E k \in 1..Len(Strategies) :
                 /\ Strategies[k].kind = "return"
                 /\ \A l \in 1..(k - 1) : Strategies[l].kind = "raise"
                 /\ other.decoded = Strategies[k]
        ELSE other.decoded = raised("JustextError")

---------------------------------------------------------------------------
(* SpecCf: classify_paragraphs on one paragraph, over feature values and    *)
(* thresholds.                                                              *)

\* the texts of the classifier's paragraphs: stop words only, no stop word,
\* one stop word in three, a copyright line and a literal &copy
CfTexts ==
    { <<"a">>, <<"a", " ", "a">>, <<"a", " ", "a", " ", "a">>,
      <<"b", " ", "b">>, <<"a", " ", "b", " ", "b">>,
      <<COPYRIGHT_SIGN, " ", "a", " ", "a">>,
      COPY_ENTITY \o <<" ", "a">> }

\* the DOM paths of the classifier's paragraphs
CfPaths == {<<"body", "p">>, <<"body", "h2">>, <<"form", "select", "option">>}

\* the linked_char_count values: none, one, and two characters (more than a
\* one-character text holds)
CfLinked == {0, 1, 2}

\* by how much word_count exceeds the words of the text: a word split over
\* two text nodes is counted twice
CfSplitWords == {0, 1}

\* the thresholds of the classifier's calls, densities in hundredths
CfLengthLow == {0, 2, 6}
CfLengthHigh == {1, 3, 8}
CfStopwordsLow == {0, 30, 50}
CfStopwordsHigh == {32, 100}
CfMaxLinkDensity == {0, 20, 100}

\* classify_paragraphs is called on one segmented paragraph
InitCf ==
    /\ pc = "classify_paragraphs"
    /\ \E text \in CfTexts, dom_path \in CfPaths, linked \in CfLinked,
          extra \in CfSplitWords :
           paragraphs =
               << [segmented(text, dom_path, linked)
                      EXCEPT !.word_count = @ + extra] >>
    /\ \E ll \in CfLengthLow, lh \in CfLengthHigh, sl \in CfStopwordsLow,
          sh \in CfStopwordsHigh, mld \in CfMaxLinkDensity, nh \in BOOLEAN :
           opts = options(ll, lh, sl, sh, mld, 0, nh)
    /\ handler = Unused
    /\ events = Unused
    /\ other = Unused

\* classify_paragraphs(paragraphs, stoplist, ...)
ClassifyCf ==
    /\ pc = "classify_paragraphs"
    /\ paragraphs' = classify_paragraphs(paragraphs, Stoplist, opts)
    /\ pc' = "done"
    /\ UNCHANGED <<handler, events, opts, other>>

NextCf == ClassifyCf

SpecCf == InitCf /\ [][NextCf]_vars

\* the label of the first pair of a rule list whose condition holds
first_match(rules) ==
    rules[CHOOSE k \in 1..Len(rules) :
              rules[k][1] /\ \A l \in 1..(k - 1) : ~rules[l][1]][2]

\* the rules every reading of the decision procedure begins with: link
\* density, copyright, select, and the two rules for a length under length_low
HeadRules(p) ==
    << <<density_gt(p.link_density, opts.max_link_density), "bad">>,
       <<contains(p.text, <<COPYRIGHT_SIGN>>) \/ contains(p.text, COPY_ENTITY),
         "bad">>,
       <<\E k \in 1..Len(p.dom_path) : p.dom_path[k] = "select", "bad">>,
       <<Len(p.text) < opts.length_low /\ p.linked_char_count > 0, "bad">>,
       <<Len(p.text) < opts.length_low, "short">> >>

\* C13 as stated: after the head rules, good if stopword_density >=
\* stopwords_high and length > length_high, neargood if stopword_density >=
\* stopwords_low, bad otherwise.
C13_FirstMatchAsStated ==
    Classified =>
        \A i \in 1..Len(paragraphs) :
            LET p == paragraphs[i] IN
            p.cfclass = first_match(
                HeadRules(p) \o
                << <<density_ge(p.stopword_density, opts.stopwords_high)
                     /\ Len(p.text) > opts.length_high, "good">>,
                   <<density_ge(p.stopword_density, opts.stopwords_low),
                     "neargood">>,
                   <<TRUE, "bad">> >>)

\* C13, amended: after the head rules, a paragraph with stopword_density >=
\* stopwords_high is good if length > length_high and neargood otherwise,
\* whatever stopwords_low is; below stopwords_high it is neargood if
\* stopword_density >= stopwords_low and bad otherwise.  A paragraph with a
\* copyright sign is bad whatever its stop-word density.
C13_FirstMatchPrecedence ==
    Classified =>
        \A i \in 1..Len(paragraphs) :
            LET p == paragraphs[i] IN
            /\ p.cfclass = first_match(
                   HeadRules(p) \o
                   << <<density_ge(p.stopword_density, opts.stopwords_high)
                        /\ Len(p.text) > opts.length_high, "good">>,
                      <<density_ge(p.stopword_density, opts.stopwords_high),
                        "neargood">>,
                      <<density_ge(p.stopword_density, opts.stopwords_low),
                        "neargood">>,
                      <<TRUE, "bad">> >>)
            /\ contains(p.text, <<COPYRIGHT_SIGN>>) => p.cfclass = "bad"

\* C13's case: a copyright line that is long enough and dense enough in stop
\* words to be good, and has no link, is bad
C13_Witness ==
    /\ Classified
    /\ \E i \in 1..Len(paragraphs) :
           LET p == paragraphs[i] IN
           /\ contains(p.text, <<COPYRIGHT_SIGN>>)
           /\ ~density_gt(p.link_density, opts.max_link_density)
           /\ Len(p.text) > opts.length_high
           /\ Len(p.text) >= opts.length_low
           /\ density_ge(p.stopword_density, opts.stopwords_high)
           /\ p.cfclass = "bad"

---------------------------------------------------------------------------
(* The passes of the reviser one by one, under SpecRev. *)

\* C14: pass 1 relabels a heading of class short neargood if and only if a
\* later paragraph of class good comes with at most max_heading_distance
\* characters of text strictly between the two; it changes nothing else.
C14_Pass1PromotesIffGoodWithinDistance ==
    Revised =>
        LET passes == AfterPass
            before == passes.copy_classes
            after == passes.good_headings
        IN  /\ Len(after) = Len(before)
            /\ \A i \in 1..Len(before) :
                   after[i] =
                       IF /\ before[i].heading
                          /\ before[i].class = "short"
                          /\ \E j \in 1..Len(before) :
                                 /\ WithinHeadingDistance(i, j)
                                 /\ before[j].class = "good"
                       THEN [before[i] EXCEPT !.class = "neargood"]
                       ELSE before[i]

\* C14's case: one short heading is relabelled over a paragraph in between
\* that uses up the whole distance, and another one, with the same good
\* paragraph further away, stays short
C14_Witness ==
    /\ Revised
    /\ opts.max_heading_distance > 0
    /\ \E i, j \in 1..Len(paragraphs) :
           /\ paragraphs[i].heading /\ paragraphs[i].cfclass = "short"
           /\ j > i + 1
           /\ paragraphs[j].cfclass = "good"
           /\ text_length(paragraphs, i + 1, j - 1) = opts.max_heading_distance
           /\ AfterPass.good_headings[i].class = "neargood"
    /\ \E i, j \in 1..Len(paragraphs) :
           /\ paragraphs[i].heading /\ paragraphs[i].cfclass = "short"
           /\ i < j
           /\ paragraphs[j].cfclass = "good"
           /\ AfterPass.good_headings[i].class = "short"

\* the nearest index on one side of i (before it when side = -1, after it
\* when side = 1) whose class is one of the given ones; 0 when the end of the
\* list is reached first
nearest(ps, i, side, classes) ==
    LET found == {k \in 1..Len(ps) :
                     (k - i) * side > 0 /\ ps[k].class \in classes}
    IN  IF found = {} THEN 0
        ELSE CHOOSE k \in found :
                 \A l \in found : (l - k) * side >= 0

\* the label a neighbour search reports: the class found, bad at the end
found_label(ps, k) == IF k = 0 THEN "bad" ELSE ps[k].class

\* the strict neighbour: short and neargood paragraphs are skipped
strict_neighbour(ps, i, side) ==
    found_label(ps, nearest(ps, i, side, {"good", "bad"}))

\* the lenient neighbour: only short paragraphs are skipped
lenient_neighbour(ps, i, side) ==
    found_label(ps, nearest(ps, i, side, {"good", "bad", "neargood"}))

\* the rule of pass 2 for paragraph i of a list: good
pass2_good(ps, i) ==
    \/ strict_neighbour(ps, i, -1) = "good" /\ strict_neighbour(ps, i, 1) = "good"
    \/ \E side \in {-1, 1} :
           /\ strict_neighbour(ps, i, -side) = "good"
           /\ strict_neighbour(ps, i, side) = "bad"
           /\ lenient_neighbour(ps, i, side) = "neargood"

\* C15: pass 2 gives every short paragraph the label decided from the
\* labels at the start of the pass: good iff both strict neighbours are good,
\* or one is good and the other bad with a neargood lenient neighbour on the
\* bad side; bad otherwise.  The end of the list counts as bad.
C15_Pass2DecidesFromLabelsBeforeThePass ==
    Revised =>
        LET passes == AfterPass
            before == passes.good_headings
            after == passes.classify_short
        IN  \A i \in 1..Len(before) :
                before[i].class = "short" =>
                    after[i].class =
                        IF pass2_good(before, i) THEN "good" ELSE "bad"

\* C15's case: a short paragraph with the end of the list as its strict
\* neighbour on one side, reached over a neargood paragraph, and a good
\* strict neighbour on the other becomes good; another short paragraph of the
\* same list becomes bad
C15_Witness ==
    /\ Revised
    /\ \E i \in 1..Len(paragraphs), side \in {-1, 1} :
           /\ AfterPass.good_headings[i].class = "short"
           /\ nearest(AfterPass.good_headings, i, side, {"good", "bad"}) = 0
           /\ lenient_neighbour(AfterPass.good_headings, i, side) = "neargood"
           /\ strict_neighbour(AfterPass.good_headings, i, -side) = "good"
           /\ AfterPass.classify_short[i].class = "good"
    /\ \E i \in 1..Len(paragraphs) :
           /\ AfterPass.good_headings[i].class = "short"
           /\ AfterPass.classify_short[i].class = "bad"

\* pass 3 with every neargood paragraph decided from the labels at the
\* start of the pass and the decisions applied together
decided_together(ps) ==
    [i \in 1..Len(ps) |->
        IF ps[i].class = "neargood"
        THEN [ps[i] EXCEPT !.class =
                 IF /\ strict_neighbour(ps, i, -1) = "bad"
                    /\ strict_neighbour(ps, i, 1) = "bad"
                 THEN "bad" ELSE "good"]
        ELSE ps[i]]

\* C16: resolving the neargood paragraphs in place, in increasing index
\* order, gives the same labels as deciding them all from the labels at the
\* start of pass 3.
C16_Pass3InPlaceIsDecidedTogether ==
    Revised =>
        LET before == AfterPass.classify_short IN
        /\ \A i \in 1..Len(before) :
               before[i].class \in {"good", "bad", "neargood"}
        /\ revise_neargood(before) = decided_together(before)

\* C16's case: two neargood paragraphs with nothing but neargood between
\* them, the first one resolved to good although its strict previous
\* neighbour is bad, so that the second decision reads a label the pass wrote
C16_Witness ==
    /\ Revised
    /\ \E i, k \in 1..Len(paragraphs) :
           /\ i < k
           /\ \A l \in i..k : AfterPass.classify_short[l].class = "neargood"
           /\ strict_neighbour(AfterPass.classify_short, i, -1) = "bad"
           /\ AfterPass.revise_neargood[i].class = "good"
           /\ get_prev_neighbour(k, AfterPass.classify_short, TRUE) = "bad"

---------------------------------------------------------------------------
(* What the reviser as a whole does to the labels, under SpecRev. *)

\* C17: a paragraph with cfclass good has final class good and one with
\* cfclass bad has final class bad, whatever its neighbours and whether or
\* not it is a heading.
C17_DecidedLabelsAreKept ==
    Revised =>
        \A i \in 1..Len(paragraphs) :
            /\ paragraphs[i].cfclass = "good" => paragraphs[i].class = "good"
            /\ paragraphs[i].cfclass = "bad" => paragraphs[i].class = "bad"

\* C17's case: a heading that is bad from the start stays bad right before a
\* good paragraph, and a good paragraph stays good with nothing but bad
\* paragraphs around it
C17_Witness ==
    /\ Revised
    /\ \E i \in 1..(Len(paragraphs) - 1) :
           /\ paragraphs[i].heading
           /\ paragraphs[i].cfclass = "bad"
           /\ paragraphs[i + 1].class = "good"
           /\ paragraphs[i].class = "bad"
    /\ \E i \in 1..Len(paragraphs) :
           /\ paragraphs[i].cfclass = "good"
           /\ \A k \in 1..Len(paragraphs) :
                  k # i => paragraphs[k].class = "bad"
           /\ paragraphs[i].class = "good"

\* C18: if no paragraph has cfclass good, every paragraph has final class
\* bad.
C18_NoGoodWithoutContextFreeGood ==
    Revised =>
        ( (\A i \in 1..Len(paragraphs) : paragraphs[i].cfclass # "good")
          => \A i \in 1..Len(paragraphs) : paragraphs[i].class = "bad" )

\* C18's case: a list of a short heading, a neargood heading and a short
\* paragraph, with no good paragraph, ends all bad
C18_Witness ==
    /\ Revised
    /\ \A i \in 1..Len(paragraphs) : paragraphs[i].cfclass # "good"
    /\ \E i, j, k \in 1..Len(paragraphs) :
           /\ paragraphs[i].heading /\ paragraphs[i].cfclass = "short"
           /\ paragraphs[j].heading /\ paragraphs[j].cfclass = "neargood"
           /\ ~paragraphs[k].heading /\ paragraphs[k].cfclass = "short"
    /\ \A i \in 1..Len(paragraphs) : paragraphs[i].class = "bad"

---------------------------------------------------------------------------
(* The segmenter's buffers and its br flag, under Spec. *)

\* C19: every emitted paragraph has a non-empty text and word_count >= 1,
\* so classify_paragraphs never divides by zero and gives every paragraph a
\* cfclass.
C19_EmittedParagraphsHaveText ==
    /\ \A i \in 1..Len(Emitted) :
           Emitted[i].text # <<>> /\ Emitted[i].word_count >= 1
    /\ pc # "ZeroDivisionError"
    /\ Classified =>
           \A i \in 1..Len(paragraphs) :
               /\ "cfclass" \in DOMAIN paragraphs[i]
               /\ paragraphs[i].cfclass \in Classes

\* C19's case: a PARAGRAPH_TAGS element holding nothing but white-space was
\* closed, no paragraph came out of it, and the paragraphs that did come out
\* were classified
C19_Witness ==
    /\ Classified
    /\ paragraphs # <<>>
    /\ \E k \in 2..(Len(events) - 1) :
           /\ events[k].kind = "text" /\ is_blank(events[k].content)
           /\ events[k - 1].kind = "start" /\ events[k - 1].name \in PARAGRAPH_TAGS
           /\ events[k + 1].kind = "end"
    /\ Len(paragraphs) = Len(TextEvents)

\* the most recent start event was a br and no non-blank text event has
\* come since
LastStartWasBr ==
    \E m \in 1..Len(events) :
        /\ events[m].kind = "start"
        /\ events[m].name = "br"
        /\ \A x \in (m + 1)..Len(events) :
               events[x].kind # "start" /\ ~IsText(events[x])

\* C20: after every event the br flag is set if and only if the most recent
\* start event was a br and no non-blank text has come since; a
\* PARAGRAPH_TAGS start after a br clears it.
C20_BrFlagIsLastStartWasBr ==
    handler.br <=> LastStartWasBr

=============================================================================
